---- MODULE Spec2Model ----
(***************************************************************************)
(* Verification model of counterfit-website/src/lib/yoco.ts: the webhook   *)
(* verifier (verifyWebhookSignature, validateWebhookTimestamp), the Yoco   *)
(* popup loader (initializeYoco) and the admin analytics route (GET).      *)
(*                                                                         *)
(* A string is the sequence of its UTF-16 code units, written Str(<<..>>). *)
(* The base64 text of an HMAC-SHA256 digest is one negative unit that      *)
(* stands for its 44 characters; what it denotes is the pair               *)
(* <<key block, bytes signed>>: HMAC is collision-free over distinct       *)
(* 64-byte key blocks and byte contents.  A number is an IEEE-754 double   *)
(* with an integer value: sign and magnitude, the magnitude in limbs of    *)
(* 15 bits, least significant first.                                       *)
(***************************************************************************)
EXTENDS Integers, Sequences, FiniteSets, TLC

VARIABLES
    \* ---- verifyWebhookSignature
    cryptoApi,        \* what the free identifier `crypto` is bound to at run time
    webhookSecret,    \* YOCO_CONFIG.webhookSecret
    webhookId, webhookTimestamp, requestBody, webhookSignature,   \* the arguments
    signedId, signedTs, signedBody,   \* the triple the provider signed
    vpc, vResult, vHmac,              \* call position, outcome, HMAC computed?
    \* ---- validateWebhookTimestamp
    timestamp, thresholdGiven, thresholdMinutes, currentTime, tpc, tResult,
    \* ---- initializeYoco
    hasWindow, windowYoco, yocoScriptLoading, callState, promise,
    \* ---- GET /api/admin/visitors/analytics
    reqPc, reqSession, reqBackend, reqFetches, reqResponses

verifyVars == <<cryptoApi, webhookSecret, webhookId, webhookTimestamp, requestBody,
                webhookSignature, signedId, signedTs, signedBody, vpc, vResult, vHmac>>
timeVars   == <<timestamp, thresholdGiven, thresholdMinutes, currentTime, tpc, tResult>>
yocoVars   == <<hasWindow, windowYoco, yocoScriptLoading, callState, promise>>
getVars    == <<reqPc, reqSession, reqBackend, reqFetches, reqResponses>>
vars       == <<verifyVars, timeVars, yocoVars, getVars>>

(***************************************************************************)
(* Bounds                                                                  *)
(***************************************************************************)
MaxPieces == 3      \* a signature header is at most this many pieces long
MaxTsLen == 3       \* a timestamp string is at most this many characters long
NumCallers == 3     \* concurrent initializeYoco calls
NumRequests == 2    \* concurrent GET requests

(***************************************************************************)
(* Strings (JavaScript semantics)                                          *)
(***************************************************************************)
\* The characters of code units 32 to 126, in order (96 by its code point).
AsciiPrintable ==
    << " ", "!", "\"", "#", "$", "%", "&", "'", "(", ")", "*", "+", ",", "-", ".", "/",
       "0", "1", "2", "3", "4", "5", "6", "7", "8", "9", ":", ";", "<", "=", ">", "?",
       "@", "A", "B", "C", "D", "E", "F", "G", "H", "I", "J", "K", "L", "M", "N", "O",
       "P", "Q", "R", "S", "T", "U", "V", "W", "X", "Y", "Z", "[", "\\", "]", "^", "_",
       "U+0060", "a", "b", "c", "d", "e", "f", "g", "h", "i", "j", "k", "l", "m", "n", "o",
       "p", "q", "r", "s", "t", "u", "v", "w", "x", "y", "z", "{", "|", "}", "~" >>

\* The code unit of a character.
CodeUnit(c) ==
    CASE c = "\t" -> 9 [] c = "\n" -> 10 [] c = "\f" -> 12 [] c = "\r" -> 13
      [] OTHER -> 31 + (CHOOSE i \in 1..Len(AsciiPrintable) : AsciiPrintable[i] = c)

\* The string of the given characters.
RECURSIVE Str(_)
Str(cs) == IF cs = <<>> THEN <<>> ELSE <<CodeUnit(Head(cs))>> \o Str(Tail(cs))

\* The base64 text of the digest the provider computed, and of a digest made
\* with a key the provider does not hold.
SignedDigest == 0 - 1
ForeignDigest == 0 - 2

RECURSIVE SplitAcc(_, _, _, _)
SplitAcc(s, sep, cur, acc) ==
    IF s = <<>> THEN Append(acc, cur)
    ELSE IF Head(s) = sep THEN SplitAcc(Tail(s), sep, <<>>, Append(acc, cur))
    ELSE SplitAcc(Tail(s), sep, Append(cur, Head(s)), acc)

\* String.prototype.split(sep): always at least one element, "" gives [""].
Split(s, sep) == SplitAcc(s, CodeUnit(sep), <<>>, <<>>)

(***************************************************************************)
(* Buffer.from(string) and hash.update(string): the UTF-8 encoding.  A     *)
(* surrogate pair is one code point of 4 bytes, a surrogate outside a pair *)
(* is encoded as U+FFFD.                                                   *)
(***************************************************************************)
IsHighSurrogate(c) == c >= 55296 /\ c <= 56319
IsLowSurrogate(c) == c >= 56320 /\ c <= 57343

Utf8OfCodePoint(cp) ==
    IF cp < 128 THEN << cp >>
    ELSE IF cp < 2048 THEN << 192 + (cp \div 64), 128 + (cp % 64) >>
    ELSE IF cp < 65536
    THEN << 224 + (cp \div 4096), 128 + ((cp \div 64) % 64), 128 + (cp % 64) >>
    ELSE << 240 + (cp \div 262144), 128 + ((cp \div 4096) % 64),
            128 + ((cp \div 64) % 64), 128 + (cp % 64) >>

\* The 44 characters a digest unit stands for, one byte each.
TokenBytes(t) == [i \in 1..44 |-> t]

RECURSIVE Utf8(_)
Utf8(s) ==
    IF s = <<>> THEN <<>>
    ELSE IF Head(s) < 0 THEN TokenBytes(Head(s)) \o Utf8(Tail(s))
    ELSE IF IsHighSurrogate(Head(s)) /\ Len(s) >= 2 /\ IsLowSurrogate(s[2])
    THEN Utf8OfCodePoint(65536 + (Head(s) - 55296) * 1024 + (s[2] - 56320))
            \o Utf8(Tail(Tail(s)))
    ELSE IF IsHighSurrogate(Head(s)) \/ IsLowSurrogate(Head(s))
    THEN << 239, 191, 189 >> \o Utf8(Tail(s))
    ELSE Utf8OfCodePoint(Head(s)) \o Utf8(Tail(s))

\* Buffer.from(string).length
ByteLen(s) == Len(Utf8(s))

(***************************************************************************)
(* Buffer.from(text, 'base64'): the decoder looks at the low 8 bits of     *)
(* each code unit, takes the standard and the URL-safe alphabet, skips     *)
(* every other character and stops at '='.                                 *)
(***************************************************************************)
B64Val(c) ==
    LET b == c % 256
    IN  IF b >= 65 /\ b <= 90 THEN b - 65
        ELSE IF b >= 97 /\ b <= 122 THEN b - 71
        ELSE IF b >= 48 /\ b <= 57 THEN b + 4
        ELSE IF b = 43 \/ b = 45 THEN 62
        ELSE IF b = 47 \/ b = 95 THEN 63
        ELSE 0 - 1

RECURSIVE B64Sextets(_)
B64Sextets(s) ==
    IF s = <<>> \/ Head(s) % 256 = 61 THEN <<>>
    ELSE IF B64Val(Head(s)) < 0 THEN B64Sextets(Tail(s))
    ELSE <<B64Val(Head(s))>> \o B64Sextets(Tail(s))

RECURSIVE B64Bytes(_)
B64Bytes(v) ==
    IF Len(v) < 2 THEN <<>>
    ELSE IF Len(v) = 2 THEN << v[1] * 4 + (v[2] \div 16) >>
    ELSE IF Len(v) = 3 THEN << v[1] * 4 + (v[2] \div 16),
                               (v[2] % 16) * 16 + (v[3] \div 4) >>
    ELSE << v[1] * 4 + (v[2] \div 16),
            (v[2] % 16) * 16 + (v[3] \div 4),
            (v[3] % 4) * 64 + v[4] >> \o B64Bytes(SubSeq(v, 5, Len(v)))

Base64Decode(s) == B64Bytes(B64Sextets(s))

(***************************************************************************)
(* SHA-256 (FIPS 180-4) over byte sequences.  A 32-bit word is the pair    *)
(* <<high 16 bits, low 16 bits>>.                                          *)
(***************************************************************************)
Sha256K ==
    << <<17034, 12184>>, <<28983, 17553>>, <<46528, 64463>>, <<59829, 56229>>,
       <<14678, 49755>>, <<23025, 4593>>, <<37439, 33444>>, <<43804, 24277>>,
       <<55303, 43672>>, <<4739, 23297>>, <<9265, 34238>>, <<21772, 32195>>,
       <<29374, 23924>>, <<32990, 45566>>, <<39900, 1703>>, <<49563, 61812>>,
       <<58523, 27073>>, <<61374, 18310>>, <<4033, 40390>>, <<9228, 41420>>,
       <<11753, 11375>>, <<19060, 33962>>, <<23728, 43484>>, <<30457, 35034>>,
       <<38974, 20818>>, <<43057, 50797>>, <<45059, 10184>>, <<48985, 32711>>,
       <<50912, 3059>>, <<54695, 37191>>, <<1738, 25425>>, <<5161, 10599>>,
       <<10167, 2693>>, <<11803, 8504>>, <<19756, 28156>>, <<21304, 3347>>,
       <<25866, 29524>>, <<30314, 2747>>, <<33218, 51502>>, <<37490, 11397>>,
       <<41663, 59553>>, <<43034, 26187>>, <<49739, 35696>>, <<51052, 20899>>,
       <<53650, 59417>>, <<54937, 1572>>, <<62478, 13701>>, <<4202, 41072>>,
       <<6564, 49430>>, <<7735, 27656>>, <<10056, 30540>>, <<13488, 48309>>,
       <<14620, 3251>>, <<20184, 43594>>, <<23452, 51791>>, <<26670, 28659>>,
       <<29839, 33518>>, <<30885, 25455>>, <<33992, 30740>>, <<36039, 520>>,
       <<37054, 65530>>, <<42064, 27883>>, <<48889, 41975>>, <<50801, 30962>> >>

Sha256H0 ==
    << <<27145, 58983>>, <<47975, 44677>>, <<15470, 62322>>, <<42319, 62778>>,
       <<20750, 21119>>, <<39685, 26764>>, <<8067, 55723>>, <<23520, 52505>> >>

RECURSIVE Xor16(_, _)
Xor16(a, b) ==
    IF a = 0 THEN b ELSE IF b = 0 THEN a
    ELSE 2 * Xor16(a \div 2, b \div 2) + ((a + b) % 2)

RECURSIVE And16(_, _)
And16(a, b) ==
    IF a = 0 \/ b = 0 THEN 0
    ELSE 2 * And16(a \div 2, b \div 2) + ((a % 2) * (b % 2))

WXor(a, b) == <<Xor16(a[1], b[1]), Xor16(a[2], b[2])>>
WAnd(a, b) == <<And16(a[1], b[1]), And16(a[2], b[2])>>
WNot(a) == <<65535 - a[1], 65535 - a[2]>>

\* Rotation and shift to the right by n bits; ShR takes n < 16.
RotR(a, n) ==
    LET hi == IF n >= 16 THEN a[2] ELSE a[1]
        lo == IF n >= 16 THEN a[1] ELSE a[2]
        m == n % 16
    IN  << (hi \div 2^m) + (lo % 2^m) * 2^(16 - m),
           (lo \div 2^m) + (hi % 2^m) * 2^(16 - m) >>
ShR(a, n) == << a[1] \div 2^n, (a[2] \div 2^n) + (a[1] % 2^n) * 2^(16 - n) >>

\* Addition modulo 2^32.
WAdd(a, b) ==
    << (a[1] + b[1] + ((a[2] + b[2]) \div 65536)) % 65536, (a[2] + b[2]) % 65536 >>

BigSigma0(a) == WXor(WXor(RotR(a, 2), RotR(a, 13)), RotR(a, 22))
BigSigma1(e) == WXor(WXor(RotR(e, 6), RotR(e, 11)), RotR(e, 25))
SmallSigma0(w) == WXor(WXor(RotR(w, 7), RotR(w, 18)), ShR(w, 3))
SmallSigma1(w) == WXor(WXor(RotR(w, 17), RotR(w, 19)), ShR(w, 10))
Ch(e, f, g) == WXor(WAnd(e, f), WAnd(WNot(e), g))
Maj(a, b, c) == WXor(WXor(WAnd(a, b), WAnd(a, c)), WAnd(b, c))

ZeroBytes(n) == [i \in 1..n |-> 0]

\* The message followed by 0x80, zeros up to 56 modulo 64, and its bit length
\* as 8 bytes, most significant first.
Sha256Pad(msg) ==
    LET n == Len(msg)
    IN  msg \o <<128>> \o ZeroBytes((119 - (n % 64)) % 64) \o <<0, 0, 0, 0>>
            \o << ((n * 8) \div 16777216) % 256, ((n * 8) \div 65536) % 256,
                  ((n * 8) \div 256) % 256, (n * 8) % 256 >>

\* The first 16 words of the message schedule: the block, 4 bytes a word.
RECURSIVE BlockWords(_)
BlockWords(block) ==
    IF block = <<>> THEN <<>>
    ELSE << <<block[1] * 256 + block[2], block[3] * 256 + block[4]>> >>
            \o BlockWords(SubSeq(block, 5, Len(block)))

\* The 64 words of the message schedule.
RECURSIVE Sha256Schedule(_)
Sha256Schedule(w) ==
    IF Len(w) = 64 THEN w
    ELSE LET t == Len(w) + 1
         IN  Sha256Schedule(Append(w,
                 WAdd(WAdd(SmallSigma1(w[t - 2]), w[t - 7]),
                      WAdd(SmallSigma0(w[t - 15]), w[t - 16]))))

\* Rounds t..64 on the working variables v = <<a, b, c, d, e, f, g, h>>.
RECURSIVE Sha256Rounds(_, _, _)
Sha256Rounds(v, w, t) ==
    IF Len(v) # 8 \/ t > 64 THEN v
    ELSE LET t1 == WAdd(WAdd(WAdd(v[8], BigSigma1(v[5])), Ch(v[5], v[6], v[7])),
                        WAdd(Sha256K[t], w[t]))
             t2 == WAdd(BigSigma0(v[1]), Maj(v[1], v[2], v[3]))
         IN  Sha256Rounds(<<WAdd(t1, t2), v[1], v[2], v[3],
                            WAdd(v[4], t1), v[5], v[6], v[7]>>, w, t + 1)

Sha256Compress(h, block) ==
    LET v == Sha256Rounds(h, Sha256Schedule(BlockWords(block)), 1)
    IN  << WAdd(h[1], v[1]), WAdd(h[2], v[2]), WAdd(h[3], v[3]), WAdd(h[4], v[4]),
           WAdd(h[5], v[5]), WAdd(h[6], v[6]), WAdd(h[7], v[7]), WAdd(h[8], v[8]) >>

RECURSIVE Sha256Blocks(_, _)
Sha256Blocks(h, bytes) ==
    IF bytes = <<>> THEN h
    ELSE Sha256Blocks(Sha256Compress(h, SubSeq(bytes, 1, 64)),
                      SubSeq(bytes, 65, Len(bytes)))

RECURSIVE WordBytes(_)
WordBytes(ws) ==
    IF ws = <<>> THEN <<>>
    ELSE << ws[1][1] \div 256, ws[1][1] % 256, ws[1][2] \div 256, ws[1][2] % 256 >>
            \o WordBytes(Tail(ws))

\* The 32 bytes of SHA-256(msg).
Sha256(msg) == WordBytes(Sha256Blocks(Sha256H0, Sha256Pad(msg)))

(***************************************************************************)
(* crypto.createHmac('sha256', key).update(content).digest('base64')       *)
(***************************************************************************)
\* The 64-byte block HMAC derives from its key: a key longer than the block is
\* hashed first, and the result is filled up with zero bytes.
HmacKeyBlock(key) ==
    LET k == IF Len(key) > 64 THEN Sha256(key) ELSE key
    IN  k \o ZeroBytes(64 - Len(k))

\* The digest, as the pair of what decides it: collision-free over distinct
\* key blocks and distinct bytes; update(string) hashes the UTF-8 encoding.
Hmac(key, content) == <<HmacKeyBlock(key), Utf8(content)>>

(***************************************************************************)
(* verifyWebhookSignature  (yoco.ts 268-310)                               *)
(***************************************************************************)
\* `${webhookId}.${webhookTimestamp}.${requestBody}`
SignedContent(id, ts, body) == id \o Str(<<".">>) \o ts \o Str(<<".">>) \o body

\* Mutant: a missing part falls back to the empty string (split('_')[1] || '').
SecretPartOrEmpty(secret) ==
    LET parts == Split(secret, "_")
    IN  [defined |-> TRUE, text |-> IF Len(parts) < 2 THEN <<>> ELSE parts[2]]

\* YOCO_CONFIG.webhookSecret.split('_')[1]; "undefined" when there is no '_'.
SecretPart(secret) ==
    LET parts == Split(secret, "_")
    IN  IF Len(parts) < 2 THEN [defined |-> FALSE, text |-> <<>>]
        ELSE [defined |-> TRUE, text |-> parts[2]]

\* Mutant: the header is trimmed of white space before it is parsed.
PrimarySignatureTrimmed(sig) ==
    LET entry == Split(SelectSeq(sig, LAMBDA t : t # CodeUnit(" ")), ",")
    IN  IF Len(entry) < 2 THEN [defined |-> FALSE, text |-> <<>>]
        ELSE [defined |-> TRUE, text |-> entry[2]]

\* webhookSignature.split(' ')[0].split(',')[1]; "undefined" without a comma.
PrimarySignature(sig) ==
    LET entry == Split(Split(sig, " ")[1], ",")
    IN  IF Len(entry) < 2 THEN [defined |-> FALSE, text |-> <<>>]
        ELSE [defined |-> TRUE, text |-> entry[2]]

\* Mutant: a comparison that looks at the lengths only.
TimingSafeEqualLengthOnly(expected, primary, digestOf) ==
    IF ByteLen(primary) # 44 THEN "throw" ELSE "true"

\* crypto.timingSafeEqual(Buffer.from(expectedSignature), Buffer.from(primary)):
\* a RangeError when the byte lengths differ, else byte equality.  digestOf
\* gives what each digest unit of the header denotes.
TimingSafeEqual(expected, primary, digestOf) ==
    IF ByteLen(primary) # 44 THEN "throw"
    ELSE IF Len(primary) = 1 /\ primary[1] \in DOMAIN digestOf
            /\ digestOf[primary[1]] = expected
         THEN "true"
         ELSE "false"

\* The body of the try block; ret is "true", "false" or "throw".
\* yoco.ts imports nothing: `crypto` at lines 287 and 298 is the global of the
\* run time.  Where that is Node's crypto module ("node") createHmac and
\* timingSafeEqual exist; where it is the Web Crypto object ("web": a module
\* loaded by Node 19+ or by the Next.js server, the browser) createHmac is not
\* a function and line 287 throws a TypeError.
VerifyTry(api, secret, id, ts, body, sig, digestOf) ==
    IF secret = <<>> THEN [ret |-> "false", hmac |-> FALSE]
    ELSE
      LET signedContent == SignedContent(id, ts, body)
          part == SecretPart(secret)
      IN
      IF ~part.defined THEN [ret |-> "throw", hmac |-> FALSE]
      ELSE IF api # "node" THEN [ret |-> "throw", hmac |-> FALSE]
      ELSE
        LET expected == Hmac(Base64Decode(part.text), signedContent)
            primary == PrimarySignature(sig)
        IN
        IF ~primary.defined THEN [ret |-> "throw", hmac |-> TRUE]
        ELSE [ret |-> TimingSafeEqual(expected, primary.text, digestOf),
              hmac |-> TRUE]

\* Mutant: the catch block rethrows.
CatchRethrows(r) == r

\* catch (error) { return false }
CatchToFalse(r) == IF r.ret = "throw" THEN [r EXCEPT !.ret = "false"] ELSE r

verifyWebhookSignature(api, secret, id, ts, body, sig, digestOf) ==
    CatchToFalse(VerifyTry(api, secret, id, ts, body, sig, digestOf))

(***************************************************************************)
(* The provider: it signs the bytes of signedId.signedTs.signedBody with   *)
(* the key decoded from everything after the 6-character prefix of the     *)
(* secret.  ForeignDigest is the same content signed with a key the        *)
(* provider does not hold.                                                 *)
(***************************************************************************)
ProviderKey(secret) == Base64Decode(SubSeq(secret, 7, Len(secret)))
ProviderContent(id, ts, body) == id \o Str(<<".">>) \o ts \o Str(<<".">>) \o body
ForeignKey == <<7, 7, 7, 7, 7>>

ProviderDigests(secret, id, ts, body) ==
    [t \in {SignedDigest, ForeignDigest} |->
        IF t = SignedDigest
        THEN Hmac(ProviderKey(secret), ProviderContent(id, ts, body))
        ELSE Hmac(ForeignKey, ProviderContent(id, ts, body))]

\* Input domains of the verifier.
CryptoApis == {"node", "web"}
Secrets == { <<>>,
             Str(<<"w","h","s","e","c">>),
             Str(<<"w","h","s","e","c","_","Q","Q","=","=">>) }
Ids    == { Str(<<"e">>), Str(<<"e", ".", "1">>) }
Stamps == { Str(<<"1">>), Str(<<"1", ".", "1">>) }
\* "b", and the string of one surrogate outside a pair, U+DC00.
Bodies == { Str(<<"b">>), <<56320>> }
\* What the provider signs: a timestamp of digits, the body "b" or the string
\* of the surrogate U+D800.
SignedStamps == { Str(<<"1">>) }
SignedBodies == { Str(<<"b">>), <<55296>> }

\* "v1,<signature>", "v1,<foreign signature>", "v1", ",<signature>", "v1,",
\* a space, a tab, "x".
Pieces == { Str(<<"v", "1", ",">>) \o <<SignedDigest>>,
            Str(<<"v", "1", ",">>) \o <<ForeignDigest>>,
            Str(<<"v", "1">>), Str(<<",">>) \o <<SignedDigest>>,
            Str(<<"v", "1", ",">>), Str(<<" ">>), Str(<<"\t">>), Str(<<"x">>) }

RECURSIVE Headers(_)
Headers(n) ==
    IF n = 0 THEN { <<>> }
    ELSE Headers(n - 1) \cup { h \o p : h \in Headers(n - 1), p \in Pieces }

(***************************************************************************)
(* Numbers: IEEE-754 doubles with integer values.  Every result is the     *)
(* exact one rounded to 53 significant bits, ties to even; a magnitude of  *)
(* 2^1024 or more is an infinity.                                          *)
(***************************************************************************)
\* Natural numbers of any size: limbs of 15 bits, least significant first,
\* the most significant limb not zero.
RECURSIVE NatOfInt(_)
NatOfInt(n) == IF n = 0 THEN <<>> ELSE <<n % 32768>> \o NatOfInt(n \div 32768)

RECURSIVE NatTrim(_)
NatTrim(a) ==
    IF a # <<>> /\ a[Len(a)] = 0 THEN NatTrim(SubSeq(a, 1, Len(a) - 1)) ELSE a

\* a * c + d for small c and d.
RECURSIVE NatMulAdd(_, _, _)
NatMulAdd(a, c, d) ==
    IF a = <<>> THEN NatOfInt(d)
    ELSE <<(a[1] * c + d) % 32768>> \o NatMulAdd(Tail(a), c, (a[1] * c + d) \div 32768)

NatTimes(a, c) == NatTrim(NatMulAdd(a, c, 0))

LowLimb(a) == IF a = <<>> THEN 0 ELSE a[1]
HighLimbs(a) == IF a = <<>> THEN <<>> ELSE Tail(a)

\* a + b + carry
RECURSIVE NatAddCarry(_, _, _)
NatAddCarry(a, b, carry) ==
    IF a = <<>> /\ b = <<>> THEN NatOfInt(carry)
    ELSE <<(LowLimb(a) + LowLimb(b) + carry) % 32768>>
            \o NatAddCarry(HighLimbs(a), HighLimbs(b),
                           (LowLimb(a) + LowLimb(b) + carry) \div 32768)

NatPlus(a, b) == NatAddCarry(a, b, 0)

\* a - b - borrow, for a >= b + borrow
RECURSIVE NatSubBorrow(_, _, _)
NatSubBorrow(a, b, borrow) ==
    IF a = <<>> THEN <<>>
    ELSE LET x == a[1] - LowLimb(b) - borrow
         IN  IF x < 0 THEN <<x + 32768>> \o NatSubBorrow(Tail(a), HighLimbs(b), 1)
             ELSE <<x>> \o NatSubBorrow(Tail(a), HighLimbs(b), 0)

NatMinus(a, b) == NatTrim(NatSubBorrow(a, b, 0))

\* -1, 0 or 1 as a < b, a = b or a > b.
RECURSIVE NatCmp(_, _)
NatCmp(a, b) ==
    IF Len(a) # Len(b) THEN (IF Len(a) < Len(b) THEN 0 - 1 ELSE 1)
    ELSE IF a = <<>> THEN 0
    ELSE IF a[Len(a)] # b[Len(b)] THEN (IF a[Len(a)] < b[Len(b)] THEN 0 - 1 ELSE 1)
    ELSE NatCmp(SubSeq(a, 1, Len(a) - 1), SubSeq(b, 1, Len(b) - 1))

\* The number of bits of a limb: 0 for 0.
RECURSIVE IntBitLen(_)
IntBitLen(n) == IF n = 0 THEN 0 ELSE 1 + IntBitLen(n \div 2)

\* The number of bits of a: 0 for 0.
NatBitLen(a) == IF a = <<>> THEN 0 ELSE 15 * (Len(a) - 1) + IntBitLen(a[Len(a)])

\* The bits of a, least significant first, the most significant bit 1.
NatBits(a) ==
    [i \in 1..NatBitLen(a) |-> (a[((i - 1) \div 15) + 1] \div (2 ^ ((i - 1) % 15))) % 2]

RECURSIVE BitsValue(_)
BitsValue(bits) == IF bits = <<>> THEN 0 ELSE bits[1] + 2 * BitsValue(Tail(bits))

\* The number of the given bits, the most significant bit 1.
NatOfBits(bits) ==
    [k \in 1..((Len(bits) + 14) \div 15) |->
        BitsValue(SubSeq(bits, 15 * (k - 1) + 1,
                         IF 15 * k < Len(bits) THEN 15 * k ELSE Len(bits)))]

RECURSIVE IncBits(_)
IncBits(bits) ==
    IF bits = <<>> THEN <<1>>
    ELSE IF bits[1] = 0 THEN <<1>> \o Tail(bits)
    ELSE <<0>> \o IncBits(Tail(bits))

\* Bits of more than 53 places rounded to 53 significant ones, ties to even.
RoundBits(bits) ==
    LET e == Len(bits) - 53
        kept == SubSeq(bits, e + 1, Len(bits))
        up == /\ bits[e] = 1
              /\ \/ kept[1] = 1
                 \/ \E i \in 1..(e - 1) : bits[i] = 1
    IN  [i \in 1..e |-> 0] \o (IF up THEN IncBits(kept) ELSE kept)

\* The nearest magnitude a double can hold.
NatRound53(a) ==
    IF NatBitLen(a) <= 53 THEN a ELSE NatOfBits(RoundBits(NatBits(a)))

NaN == [nan |-> TRUE, inf |-> FALSE, neg |-> FALSE, mag |-> <<>>]
Infinity == [nan |-> FALSE, inf |-> TRUE, neg |-> FALSE, mag |-> <<>>]

\* The double nearest to the integer of the given sign and magnitude.
Num(neg, mag) ==
    LET r == NatRound53(mag)
    IN  IF NatBitLen(r) > 1024
        THEN [Infinity EXCEPT !.neg = neg]
        ELSE [nan |-> FALSE, inf |-> FALSE, neg |-> neg, mag |-> r]

Abs(n) == IF n < 0 THEN 0 - n ELSE n

\* The double of a small integer.
NumOfInt(n) == Num(n < 0, NatOfInt(Abs(n)))

\* x * c for a small positive integer c.
NumTimes(x, c) ==
    IF x.nan THEN NaN
    ELSE IF x.inf THEN x
    ELSE Num(x.neg, NatTimes(x.mag, c))

\* x - y
NumMinus(x, y) ==
    IF x.nan \/ y.nan THEN NaN
    ELSE IF x.inf /\ y.inf THEN (IF x.neg = y.neg THEN NaN ELSE x)
    ELSE IF x.inf THEN x
    ELSE IF y.inf THEN [y EXCEPT !.neg = ~y.neg]
    ELSE IF x.neg # y.neg THEN Num(x.neg, NatPlus(x.mag, y.mag))
    ELSE IF NatCmp(x.mag, y.mag) = 0 THEN Num(FALSE, <<>>)
    ELSE IF NatCmp(x.mag, y.mag) > 0 THEN Num(x.neg, NatMinus(x.mag, y.mag))
    ELSE Num(~x.neg, NatMinus(y.mag, x.mag))

\* Math.abs(x)
NumAbs(x) == IF x.nan THEN NaN ELSE [x EXCEPT !.neg = FALSE]

\* -1, 0, 1 for negative, zero, positive.
NumSign(x) == IF ~x.inf /\ x.mag = <<>> THEN 0 ELSE IF x.neg THEN 0 - 1 ELSE 1

NumMagCmp(x, y) ==
    IF x.inf /\ y.inf THEN 0
    ELSE IF x.inf THEN 1
    ELSE IF y.inf THEN 0 - 1
    ELSE NatCmp(x.mag, y.mag)

\* x <= y; false when either is NaN.
NumLessEq(x, y) ==
    IF x.nan \/ y.nan THEN FALSE
    ELSE IF NumSign(x) # NumSign(y) THEN NumSign(x) < NumSign(y)
    ELSE IF NumSign(x) = 0 THEN TRUE
    ELSE IF NumSign(x) = 1 THEN NumMagCmp(x, y) <= 0
    ELSE NumMagCmp(x, y) >= 0

(***************************************************************************)
(* validateWebhookTimestamp  (yoco.ts 313-328)                             *)
(***************************************************************************)
\* The value of a digit or letter as a digit, 99 for any other character.
DigitVal(c) ==
    IF c >= 48 /\ c <= 57 THEN c - 48
    ELSE IF c >= 97 /\ c <= 122 THEN c - 87
    ELSE IF c >= 65 /\ c <= 90 THEN c - 55
    ELSE 99

\* WhiteSpace and LineTerminator of ECMAScript: what parseInt trims in front.
WhiteSpaceChars ==
    { 9, 10, 11, 12, 13, 32, 160, 5760, 8232, 8233, 8239, 8287, 12288, 65279 }
        \cup 8192..8202

RECURSIVE SkipWhite(_)
SkipWhite(s) ==
    IF s # <<>> /\ Head(s) \in WhiteSpaceChars THEN SkipWhite(Tail(s)) ELSE s

\* The longest prefix of digits of the radix, folded into the exact integer;
\* "none" when the prefix is empty.
RECURSIVE ParseDigits(_, _, _, _)
ParseDigits(s, radix, acc, any) ==
    IF s # <<>> /\ DigitVal(Head(s)) < radix
    THEN ParseDigits(Tail(s), radix,
                     NatTrim(NatMulAdd(acc, radix, DigitVal(Head(s)))), TRUE)
    ELSE [any |-> any, mag |-> acc]

\* Mutant: a string without digits parses to 0 (parseInt(string) || 0).
parseIntOrZero(str) ==
    LET s1 == SkipWhite(str)
        neg == s1 # <<>> /\ Head(s1) = CodeUnit("-")
        s2 == IF s1 # <<>> /\ Head(s1) \in {CodeUnit("-"), CodeUnit("+")}
              THEN Tail(s1) ELSE s1
        r == ParseDigits(s2, 10, <<>>, FALSE)
    IN  IF ~r.any THEN Num(FALSE, <<>>) ELSE Num(neg, r.mag)

\* parseInt(string) without a radix: leading white space, a sign, 0x for hex,
\* then digits up to the first character that is none; the integer read is
\* rounded to the nearest double.
parseInt(str) ==
    LET s1 == SkipWhite(str)
        neg == s1 # <<>> /\ Head(s1) = CodeUnit("-")
        s2 == IF s1 # <<>> /\ Head(s1) \in {CodeUnit("-"), CodeUnit("+")}
              THEN Tail(s1) ELSE s1
        hex == Len(s2) >= 2 /\ s2[1] = CodeUnit("0")
                   /\ s2[2] \in {CodeUnit("x"), CodeUnit("X")}
        r == IF hex THEN ParseDigits(SubSeq(s2, 3, Len(s2)), 16, <<>>, FALSE)
             ELSE ParseDigits(s2, 10, <<>>, FALSE)
    IN  IF ~r.any THEN NaN ELSE Num(neg, r.mag)

\* thresholdMinutes: number = 3
DefaultThresholdMinutes == 3

\* Mutant: the bound is exclusive (< instead of <=).
ValidateTryStrict(ts, given, minutes, now) ==
    LET webhookTime == NumTimes(parseInt(ts), 1000)
        thresholdMs ==
            NumTimes(NumTimes(IF given THEN minutes
                              ELSE NumOfInt(DefaultThresholdMinutes), 60), 1000)
        distance == NumAbs(NumMinus(now, webhookTime))
    IN  IF NumLessEq(distance, thresholdMs) /\ ~NumLessEq(thresholdMs, distance)
        THEN [ret |-> "true"]
        ELSE [ret |-> "false"]

\* The body of the try block: nothing in it throws; a comparison with NaN is false.
ValidateTry(ts, given, minutes, now) ==
    LET webhookTime == NumTimes(parseInt(ts), 1000)
        thresholdMs ==
            NumTimes(NumTimes(IF given THEN minutes
                              ELSE NumOfInt(DefaultThresholdMinutes), 60), 1000)
    IN  IF NumLessEq(NumAbs(NumMinus(now, webhookTime)), thresholdMs)
        THEN [ret |-> "true"]
        ELSE [ret |-> "false"]

validateWebhookTimestamp(ts, given, minutes, now) ==
    CatchToFalse(ValidateTry(ts, given, minutes, now))

\* Input domains of the freshness check.
TsChars == Str(<<"1", "0", "-", "a", " ", "\t", "x">>)

RECURSIVE Strings(_, _)
Strings(chars, n) ==
    IF n = 0 THEN { <<>> }
    ELSE Strings(chars, n - 1)
         \cup { Append(s, chars[i]) : s \in Strings(chars, n - 1), i \in 1..Len(chars) }

\* Timestamps beyond 2^53 milliseconds.
BigStamps ==
    { Str(<<"9","0","0","0","0","0","0","0","0","0","0","0","0","0","0","0","0","0","1">>),
      Str(<<"7","2","0","5","7","5","9","4","0","3","7","9","2","9">>) }

\* The double of a decimal text.
NumOfText(cs) == parseInt(Str(cs))

Nows == { NumOfInt(n) : n \in {0, 999, 1000, 181000, 181001, 182000,
                               0 - 179000, 0 - 179001, 8996} }

Thresholds ==
    { <<FALSE, NumOfInt(0)>>, <<TRUE, NumOfInt(0)>>,
      <<TRUE, NumOfInt(3)>>, <<TRUE, NumOfInt(0 - 1)>>,
      <<TRUE, NaN>>, <<TRUE, Infinity>>,
      <<TRUE, NumOfText(<<"1","5","0","0","0","0","0","0","0","0","0","0","0","0","0","0","0","0">>)>>,
      <<TRUE, NumOfText(<<"1","2","0","0","9","5","9","9","0","0","6","3","2">>)>> }

(***************************************************************************)
(* State outside a call: each specification below runs one part of the     *)
(* module and leaves the other parts in these states.                      *)
(***************************************************************************)
VerifyIdle ==
    /\ cryptoApi = "node" /\ webhookSecret = <<>>
    /\ webhookId = <<>> /\ webhookTimestamp = <<>> /\ requestBody = <<>>
    /\ webhookSignature = <<>>
    /\ signedId = <<>> /\ signedTs = <<>> /\ signedBody = <<>>
    /\ vpc = "idle" /\ vResult = "none" /\ vHmac = FALSE

TimeIdle ==
    /\ timestamp = <<>> /\ thresholdGiven = FALSE /\ thresholdMinutes = NumOfInt(0)
    /\ currentTime = NumOfInt(0) /\ tpc = "idle" /\ tResult = "none"

YocoIdle ==
    /\ hasWindow = TRUE /\ windowYoco = "undefined" /\ yocoScriptLoading = FALSE
    /\ callState = <<>> /\ promise = <<>>

GetIdle ==
    /\ reqPc = <<>> /\ reqSession = <<>> /\ reqBackend = <<>>
    /\ reqFetches = <<>> /\ reqResponses = <<>>

(***************************************************************************)
(* Specification of the signature check: the environment fixes the         *)
(* configuration, the signed triple, the received triple and the header,   *)
(* then verifyWebhookSignature runs.                                       *)
(***************************************************************************)
InitVerify ==
    /\ cryptoApi \in CryptoApis
    /\ webhookSecret \in Secrets
    /\ signedId \in Ids /\ signedTs \in SignedStamps /\ signedBody \in SignedBodies
    /\ webhookId \in Ids /\ webhookTimestamp \in Stamps /\ requestBody \in Bodies
    /\ webhookSignature \in Headers(MaxPieces)
    /\ vpc = "called" /\ vResult = "none" /\ vHmac = FALSE
    /\ TimeIdle /\ YocoIdle /\ GetIdle

VerifyCall ==
    /\ vpc = "called"
    /\ LET r == verifyWebhookSignature(cryptoApi, webhookSecret, webhookId,
                    webhookTimestamp, requestBody, webhookSignature,
                    ProviderDigests(webhookSecret, signedId, signedTs, signedBody))
       IN  /\ vResult' = r.ret
           /\ vHmac' = r.hmac
    /\ vpc' = "returned"
    /\ UNCHANGED <<cryptoApi, webhookSecret, webhookId, webhookTimestamp, requestBody,
                   webhookSignature, signedId, signedTs, signedBody>>
    /\ UNCHANGED <<timeVars, yocoVars, getVars>>

(***************************************************************************)
(* Specification of the freshness check.                                   *)
(***************************************************************************)
InitTime ==
    /\ timestamp \in Strings(TsChars, MaxTsLen) \cup BigStamps
    /\ \E th \in Thresholds : thresholdGiven = th[1] /\ thresholdMinutes = th[2]
    /\ currentTime \in Nows
    /\ tpc = "called" /\ tResult = "none"
    /\ VerifyIdle /\ YocoIdle /\ GetIdle

ValidateCall ==
    /\ tpc = "called"
    /\ tResult' = validateWebhookTimestamp(timestamp, thresholdGiven,
                                           thresholdMinutes, currentTime).ret
    /\ tpc' = "returned"
    /\ UNCHANGED <<timestamp, thresholdGiven, thresholdMinutes, currentTime>>
    /\ UNCHANGED <<verifyVars, yocoVars, getVars>>

(***************************************************************************)
(* The webhook verifier: one call of either operation on drawn inputs.     *)
(***************************************************************************)
Init == InitVerify \/ InitTime

Next == VerifyCall \/ ValidateCall

Spec == Init /\ [][Next]_vars

(***************************************************************************)
(* Claims about the webhook verifier                                       *)
(***************************************************************************)
WhsecPrefix == Str(<<"w", "h", "s", "e", "c", "_">>)

IsStdB64Char(c) ==
    \E x \in {"A","B","C","D","E","F","G","H","I","J","K","L","M","N","O","P",
              "Q","R","S","T","U","V","W","X","Y","Z","a","b","c","d","e","f",
              "g","h","i","j","k","l","m","n","o","p","q","r","s","t","u","v",
              "w","x","y","z","0","1","2","3","4","5","6","7","8","9","+","/"} :
        c = CodeUnit(x)

\* Text in the standard base64 alphabet, with at most two '=' of padding.
IsStdBase64(text) ==
    /\ text # <<>>
    /\ \E pad \in 0..2 :
         /\ pad < Len(text)
         /\ \A i \in 1..Len(text) :
              IF i > Len(text) - pad THEN text[i] = CodeUnit("=")
              ELSE IsStdB64Char(text[i])

\* The configured secret has the form whsec_<base64>.
SecretWellFormed ==
    /\ Len(webhookSecret) > 6
    /\ SubSeq(webhookSecret, 1, 6) = WhsecPrefix
    /\ IsStdBase64(SubSeq(webhookSecret, 7, Len(webhookSecret)))

\* The header exactly as the provider produces it for the signed triple.
ProviderHeader == Str(<<"v", "1", ",">>) \o <<SignedDigest>>
\* The same with the digest of a foreign key.
ForeignHeader == Str(<<"v", "1", ",">>) \o <<ForeignDigest>>

ReceivedTriple == <<webhookId, webhookTimestamp, requestBody>>
SignedTriple == <<signedId, signedTs, signedBody>>
ReceivedContent == ProviderContent(webhookId, webhookTimestamp, requestBody)
SignedContentOfProvider == ProviderContent(signedId, signedTs, signedBody)

VerifyReturned == vpc = "returned"
ValidateReturned == tpc = "returned"

\* C1: a triple signed with the configured secret of the form whsec_<base64>,
\* presented with the provider's header "v1,<signature>", verifies true.
ClaimC1_SignedVerifiesTrue ==
    (VerifyReturned /\ SecretWellFormed /\ webhookSignature = ProviderHeader
        /\ ReceivedTriple = SignedTriple)
    => vResult = "true"

\* C2 as stated: with the provider's header for the signed triple, every received
\* triple that differs from the signed one in some field verifies false.
ClaimC2_AnyFieldDiffers ==
    (VerifyReturned /\ webhookSignature = ProviderHeader
        /\ ReceivedTriple # SignedTriple)
    => vResult = "false"

\* C2 amended: with the provider's header for the signed triple, every received
\* triple for which the bytes signed, the UTF-8 encoding of id.timestamp.body,
\* differ from those of the signed triple verifies false.
ClaimC2_ContentDiffers ==
    (VerifyReturned /\ webhookSignature = ProviderHeader
        /\ Utf8(ReceivedContent) # Utf8(SignedContentOfProvider))
    => vResult = "false"

WitnessC2 ==
    /\ VerifyReturned /\ cryptoApi = "node" /\ SecretWellFormed
    /\ webhookSignature = ProviderHeader
    /\ Utf8(ReceivedContent) # Utf8(SignedContentOfProvider)
    /\ requestBody # signedBody
    /\ vHmac /\ vResult = "false"

\* C4: both operations end by returning a boolean; whatever is thrown inside
\* verifyWebhookSignature is returned as false.
ClaimC4_NeverRaises ==
    /\ VerifyReturned =>
         /\ vResult \in {"true", "false"}
         /\ VerifyTry(cryptoApi, webhookSecret, webhookId, webhookTimestamp,
                      requestBody, webhookSignature,
                      ProviderDigests(webhookSecret, signedId, signedTs,
                                      signedBody)).ret = "throw"
              => vResult = "false"
    /\ ValidateReturned => tResult \in {"true", "false"}

\* A length mismatch in the constant-time comparison, after the HMAC was computed.
WitnessC4 ==
    /\ VerifyReturned /\ cryptoApi = "node" /\ SecretWellFormed
    /\ webhookSignature = ProviderHeader \o Str(<<"x">>)
    /\ ReceivedTriple = SignedTriple
    /\ vHmac /\ vResult = "false"

FirstEntry(sig) == Split(sig, " ")[1]
HasComma(s) == \E i \in 1..Len(s) : s[i] = CodeUnit(",")
FirstComma(s) ==
    CHOOSE i \in 1..Len(s) :
        s[i] = CodeUnit(",") /\ \A j \in 1..(i - 1) : s[j] # CodeUnit(",")

HeaderEmpty(sig) == sig = <<>>
HeaderNoComma(sig) == ~HasComma(FirstEntry(sig))

\* White space of any kind (space, tab, line terminators, ...) at the start, at
\* the end, or directly before or after the comma that separates version and
\* value.
HeaderLeadingWhitespace(sig) == sig # <<>> /\ sig[1] \in WhiteSpaceChars
HeaderTrailingWhitespace(sig) == sig # <<>> /\ sig[Len(sig)] \in WhiteSpaceChars
HeaderInnerWhitespace(sig) ==
    /\ HasComma(sig)
    /\ LET i == FirstComma(sig)
       IN  \/ i > 1 /\ sig[i - 1] \in WhiteSpaceChars
           \/ i < Len(sig) /\ sig[i + 1] \in WhiteSpaceChars

\* The space character U+0020 at the start, or directly before or after the
\* comma that separates version and value.
HeaderLeadingU0020(sig) == sig # <<>> /\ sig[1] = CodeUnit(" ")
HeaderInnerU0020(sig) ==
    /\ HasComma(sig)
    /\ LET i == FirstComma(sig)
       IN  \/ i > 1 /\ sig[i - 1] = CodeUnit(" ")
           \/ i < Len(sig) /\ sig[i + 1] = CodeUnit(" ")

\* A white space character in the value of the first entry: in what stands
\* between its first and its second comma.
HeaderValueWhitespace(sig) ==
    LET entry == Split(FirstEntry(sig), ",")
    IN  /\ Len(entry) >= 2
        /\ \E i \in 1..Len(entry[2]) : entry[2][i] \in WhiteSpaceChars

\* C5 as stated: an empty header, a first entry without a comma, or extra white
\* space (leading, trailing or between version and value) verifies false.
ClaimC5_AnyWhitespace ==
    (VerifyReturned
        /\ (\/ HeaderEmpty(webhookSignature) \/ HeaderNoComma(webhookSignature)
            \/ HeaderLeadingWhitespace(webhookSignature)
            \/ HeaderTrailingWhitespace(webhookSignature)
            \/ HeaderInnerWhitespace(webhookSignature)))
    => vResult = "false"

\* C5 amended: an empty header, a first entry (the text before the first U+0020)
\* without a comma, a U+0020 at the start or directly before or after the comma
\* between version and value, or a white space character in the value of the
\* first entry verifies false.
ClaimC5_U0020OrValueWhitespace ==
    (VerifyReturned
        /\ (\/ HeaderEmpty(webhookSignature) \/ HeaderNoComma(webhookSignature)
            \/ HeaderLeadingU0020(webhookSignature)
            \/ HeaderInnerU0020(webhookSignature)
            \/ HeaderValueWhitespace(webhookSignature)))
    => vResult = "false"

\* "v1 ,<signature>" of the signed triple under a working configuration.
WitnessC5 ==
    /\ VerifyReturned /\ cryptoApi = "node" /\ SecretWellFormed
    /\ webhookSignature = Str(<<"v", "1", " ", ",">>) \o <<SignedDigest>>
    /\ ReceivedTriple = SignedTriple
    /\ vHmac /\ vResult = "false"

SecretHasUnderscore ==
    \E i \in 1..Len(webhookSecret) : webhookSecret[i] = CodeUnit("_")

\* C6: an unset or empty secret, or one without an underscore, verifies false;
\* with the unset or empty secret no HMAC is computed.
ClaimC6_BadSecret ==
    /\ (VerifyReturned /\ ~SecretHasUnderscore) => vResult = "false"
    /\ (VerifyReturned /\ webhookSecret = <<>>) => ~vHmac

WitnessC6 ==
    /\ VerifyReturned /\ cryptoApi = "node"
    /\ webhookSecret # <<>> /\ ~SecretHasUnderscore
    /\ webhookSignature = ProviderHeader /\ ReceivedTriple = SignedTriple
    /\ vResult = "false"

\* C8: the first space-separated entry decides: a wrong first signature is
\* false whatever follows, a correct first signature is true whatever follows.
ClaimC8_FirstEntryDecides ==
    (VerifyReturned /\ SecretWellFormed /\ ReceivedTriple = SignedTriple)
    => /\ FirstEntry(webhookSignature) = ForeignHeader => vResult = "false"
       /\ FirstEntry(webhookSignature) = ProviderHeader => vResult = "true"

(***************************************************************************)
(* Claims about the freshness check                                        *)
(***************************************************************************)
IsDecDigit(c) == c >= CodeUnit("0") /\ c <= CodeUnit("9")
DecDigitValue(c) == c - CodeUnit("0")

\* The natural number a text of decimal digits writes.
RECURSIVE DecimalValue(_)
DecimalValue(d) ==
    IF d = <<>> THEN <<>>
    ELSE NatTrim(NatMulAdd(DecimalValue(SubSeq(d, 1, Len(d) - 1)), 10,
                           DecDigitValue(d[Len(d)])))

\* The decimal text of an integer, as String(t) writes it.
IsIntegerText(s) ==
    LET d == IF s # <<>> /\ Head(s) = CodeUnit("-") THEN Tail(s) ELSE s
    IN  /\ d # <<>>
        /\ \A i \in 1..Len(d) : IsDecDigit(d[i])
        /\ (Len(d) = 1 \/ d[1] # CodeUnit("0"))
        /\ ~(s[1] = CodeUnit("-") /\ d = Str(<<"0">>))

\* The integer a text writes, as sign and magnitude.
IntegerOfText(s) ==
    IF Head(s) = CodeUnit("-") THEN [neg |-> TRUE, mag |-> DecimalValue(Tail(s))]
    ELSE [neg |-> FALSE, mag |-> DecimalValue(s)]

EffectiveMinutes == IF thresholdGiven THEN thresholdMinutes ELSE NumOfInt(3)

\* |x - y| of two integers, in exact arithmetic.
ExactDistance(x, y) ==
    IF x.neg # y.neg THEN NatPlus(x.mag, y.mag)
    ELSE IF NatCmp(x.mag, y.mag) >= 0 THEN NatMinus(x.mag, y.mag)
    ELSE NatMinus(y.mag, x.mag)

\* t seconds in milliseconds, m minutes in milliseconds, exactly.
ExactMillis(mag) == NatTimes(mag, 1000)
ExactThresholdMs(mag) == NatTimes(NatTimes(mag, 60), 1000)

\* |now - t*1000| <= m*60*1000 over the integers.
ExactlyInWindow(t, now, m) ==
    /\ ~(m.neg /\ m.mag # <<>>)
    /\ NatCmp(ExactDistance(now, [neg |-> t.neg, mag |-> ExactMillis(t.mag)]),
              ExactThresholdMs(m.mag)) <= 0

\* 2^53: below it every integer is a double.
TwoTo53 == NatOfBits([i \in 1..54 |-> IF i = 54 THEN 1 ELSE 0])

IsInteger(x) == ~x.nan /\ ~x.inf

\* C3 as stated: for integers t, now and m the result is true exactly when
\* |now - t*1000| <= m*60*1000, whatever their sizes.
ClaimC3_WindowInclusive ==
    (ValidateReturned /\ IsIntegerText(timestamp)
        /\ IsInteger(currentTime) /\ IsInteger(EffectiveMinutes))
    => ((tResult = "true")
          <=> ExactlyInWindow(IntegerOfText(timestamp), currentTime, EffectiveMinutes))

\* C3 amended: the same for t, now and m with |t*1000|, |now| and |m*60*1000|
\* below 2^53.
ClaimC3_WindowBelowTwoTo53 ==
    (ValidateReturned /\ IsIntegerText(timestamp)
        /\ IsInteger(currentTime) /\ IsInteger(EffectiveMinutes)
        /\ NatCmp(ExactMillis(IntegerOfText(timestamp).mag), TwoTo53) < 0
        /\ NatCmp(currentTime.mag, TwoTo53) < 0
        /\ NatCmp(ExactThresholdMs(EffectiveMinutes.mag), TwoTo53) < 0)
    => ((tResult = "true")
          <=> ExactlyInWindow(IntegerOfText(timestamp), currentTime, EffectiveMinutes))

\* A timestamp exactly 180 seconds before now, default threshold.
WitnessC3 ==
    /\ ValidateReturned /\ timestamp = Str(<<"1">>) /\ currentTime = NumOfInt(181000)
    /\ ~thresholdGiven /\ tResult = "true"

\* No integer can be read off the front of the text.
IsNonNumeric(s) ==
    LET s1 == SkipWhite(s)
        s2 == IF s1 # <<>> /\ Head(s1) \in {CodeUnit("-"), CodeUnit("+")}
              THEN Tail(s1) ELSE s1
    IN  s2 = <<>> \/ ~IsDecDigit(Head(s2))

\* C7: a timestamp that does not parse to an integer is invalid, for every
\* current time and threshold.
ClaimC7_NonNumericFalse ==
    (ValidateReturned /\ IsNonNumeric(timestamp)) => tResult = "false"

WitnessC7 ==
    /\ ValidateReturned /\ timestamp = Str(<<"a">>) /\ currentTime = NumOfInt(0)
    /\ thresholdGiven /\ thresholdMinutes = NumOfInt(3) /\ tResult = "false"

(***************************************************************************)
(* initializeYoco  (yoco.ts 353-427)                                       *)
(* One process per call.  callState: "idle" (not called yet), "polling"    *)
(* (setInterval armed), "loading" (script appended, no event yet), "timer" *)
(* (onload ran, setTimeout armed), "done" (nothing armed any more).        *)
(* windowYoco: "undefined", "constructor" (new window.Yoco(...) returns    *)
(* an instance) or "broken" (a truthy value that new throws on).           *)
(***************************************************************************)
Callers == 1..NumCallers
Settled == {"resolved", "rejected"}
YocoValues == {"undefined", "constructor", "broken"}

InitYoco ==
    /\ hasWindow \in BOOLEAN
    /\ windowYoco \in (IF hasWindow THEN YocoValues ELSE {"undefined"})
    /\ yocoScriptLoading = FALSE
    /\ callState = [c \in Callers |-> "idle"]
    /\ promise = [c \in Callers |-> "none"]
    /\ VerifyIdle /\ TimeIdle /\ GetIdle

\* The promise executor, lines 354-426.
Call(c) ==
    /\ callState[c] = "idle"
    /\ IF ~hasWindow
       THEN \* line 371 dereferences window: the executor throws, the promise rejects
            /\ promise' = [promise EXCEPT ![c] = "rejected"]
            /\ callState' = [callState EXCEPT ![c] = "done"]
            /\ UNCHANGED yocoScriptLoading
       ELSE IF windowYoco = "constructor"
       THEN /\ promise' = [promise EXCEPT ![c] = "resolved"]
            /\ callState' = [callState EXCEPT ![c] = "done"]
            /\ UNCHANGED yocoScriptLoading
       ELSE IF windowYoco = "broken"
       THEN \* new at line 363 throws inside the executor: the promise rejects
            /\ promise' = [promise EXCEPT ![c] = "rejected"]
            /\ callState' = [callState EXCEPT ![c] = "done"]
            /\ UNCHANGED yocoScriptLoading
       ELSE IF yocoScriptLoading
       THEN /\ promise' = [promise EXCEPT ![c] = "pending"]
            /\ callState' = [callState EXCEPT ![c] = "polling"]
            /\ UNCHANGED yocoScriptLoading
       ELSE /\ yocoScriptLoading' = TRUE
            /\ promise' = [promise EXCEPT ![c] = "pending"]
            /\ callState' = [callState EXCEPT ![c] = "loading"]
    /\ UNCHANGED <<hasWindow, windowYoco>>
    /\ UNCHANGED <<verifyVars, timeVars, getVars>>

\* The setInterval callback, lines 373-382.  With window.Yoco set it clears
\* the interval first; new at line 377 throwing leaves the promise as it is.
IntervalTick(c) ==
    /\ callState[c] = "polling"
    /\ IF windowYoco = "constructor"
       THEN /\ promise' = [promise EXCEPT ![c] = "resolved"]
            /\ callState' = [callState EXCEPT ![c] = "done"]
       ELSE IF windowYoco = "broken"
       THEN /\ callState' = [callState EXCEPT ![c] = "done"]
            /\ UNCHANGED promise
       ELSE UNCHANGED <<promise, callState>>
    /\ UNCHANGED <<hasWindow, windowYoco, yocoScriptLoading>>
    /\ UNCHANGED <<verifyVars, timeVars, getVars>>

\* The script ran (it may or may not define window.Yoco), then script.onload,
\* lines 394-409.
ScriptOnload(c) ==
    /\ callState[c] = "loading"
    /\ \E defines \in YocoValues :
         windowYoco' = (IF defines = "undefined" THEN windowYoco ELSE defines)
    /\ yocoScriptLoading' = FALSE
    /\ callState' = [callState EXCEPT ![c] = "timer"]
    /\ UNCHANGED <<hasWindow, promise>>
    /\ UNCHANGED <<verifyVars, timeVars, getVars>>

\* script.onerror, lines 411-423.
ScriptOnerror(c) ==
    /\ callState[c] = "loading"
    /\ yocoScriptLoading' = FALSE
    /\ promise' = [promise EXCEPT ![c] = "rejected"]
    /\ callState' = [callState EXCEPT ![c] = "done"]
    /\ UNCHANGED <<hasWindow, windowYoco>>
    /\ UNCHANGED <<verifyVars, timeVars, getVars>>

\* The setTimeout callback of onload, lines 399-408.  new at line 401 throwing
\* reaches neither resolve nor reject.
TimeoutFire(c) ==
    /\ callState[c] = "timer"
    /\ promise' = [promise EXCEPT ![c] =
                      IF windowYoco = "constructor" THEN "resolved"
                      ELSE IF windowYoco = "broken" THEN @
                      ELSE "rejected"]
    /\ callState' = [callState EXCEPT ![c] = "done"]
    /\ UNCHANGED <<hasWindow, windowYoco, yocoScriptLoading>>
    /\ UNCHANGED <<verifyVars, timeVars, getVars>>

NextYoco ==
    \E c \in Callers :
        \/ Call(c)
        \/ IntervalTick(c)
        \/ ScriptOnload(c)
        \/ ScriptOnerror(c)
        \/ TimeoutFire(c)

\* The event loop runs every armed timer, and the browser ends every script
\* load with a load or an error event.
FairYoco ==
    \A c \in Callers :
        /\ WF_vars(IntervalTick(c))
        /\ WF_vars(ScriptOnload(c) \/ ScriptOnerror(c))
        /\ WF_vars(TimeoutFire(c))

SpecYoco == InitYoco /\ [][NextYoco]_vars /\ FairYoco

\* C9: every promise returned by initializeYoco eventually settles.
ClaimC9_EveryPromiseSettles ==
    \A c \in Callers : (promise[c] = "pending") ~> (promise[c] \in Settled)

(***************************************************************************)
(* GET /api/admin/visitors/analytics  (yoco.ts 433-505)                    *)
(* One process per request; a step is what runs between two awaits.        *)
(***************************************************************************)
Requests == 1..NumRequests
SessionKinds == {"threw", "null", "noUser", "user", "admin"}

InitGet ==
    /\ reqPc = [r \in Requests |-> "session"]
    /\ reqSession = [r \in Requests |-> "unknown"]
    /\ reqBackend = [r \in Requests |-> "none"]
    /\ reqFetches = [r \in Requests |-> 0]
    /\ reqResponses = [r \in Requests |-> <<>>]
    /\ VerifyIdle /\ TimeIdle /\ YocoIdle

\* Mutant: only the presence of a session is checked.
AfterSessionAnySession(s) ==
    IF s = "threw" THEN 500
    ELSE IF s = "null" THEN 401
    ELSE 0

\* Lines 438-452: the status to answer with once getServerSession settled,
\* 0 to go on to the backend.  session.user?.role is undefined without a user.
AfterSession(s) ==
    IF s = "threw" THEN 500
    ELSE IF s = "null" THEN 401
    ELSE IF s # "admin" THEN 403
    ELSE 0

Respond(r, status) ==
    /\ reqResponses' = [reqResponses EXCEPT ![r] = Append(@, status)]
    /\ reqPc' = [reqPc EXCEPT ![r] = "done"]

\* await getServerSession(authOptions) settles; lines 438-464.
SessionSettled(r) ==
    /\ reqPc[r] = "session"
    /\ \E s \in SessionKinds :
         /\ reqSession' = [reqSession EXCEPT ![r] = s]
         /\ IF AfterSession(s) # 0
            THEN /\ Respond(r, AfterSession(s))
                 /\ UNCHANGED <<reqBackend, reqFetches>>
            ELSE /\ reqFetches' = [reqFetches EXCEPT ![r] = @ + 1]
                 /\ reqBackend' = [reqBackend EXCEPT ![r] = "pending"]
                 /\ reqPc' = [reqPc EXCEPT ![r] = "fetch"]
                 /\ UNCHANGED reqResponses
    /\ UNCHANGED <<verifyVars, timeVars, yocoVars>>

\* await fetch(...) settles; lines 464-478.
FetchSettled(r) ==
    /\ reqPc[r] = "fetch"
    /\ \E o \in {"netError", "notOk", "ok"} :
         /\ reqBackend' = [reqBackend EXCEPT ![r] = o]
         /\ IF o = "ok"
            THEN /\ reqPc' = [reqPc EXCEPT ![r] = "json"]
                 /\ UNCHANGED reqResponses
            ELSE Respond(r, 500)
    /\ UNCHANGED <<reqSession, reqFetches>>
    /\ UNCHANGED <<verifyVars, timeVars, yocoVars>>

\* await response.json() settles; lines 478-503.
JsonSettled(r) ==
    /\ reqPc[r] = "json"
    /\ \E o \in {"badJson", "nullBody", "noSuccess", "success"} :
         /\ reqBackend' = [reqBackend EXCEPT ![r] = o]
         /\ Respond(r, IF o = "success" THEN 200 ELSE 500)
    /\ UNCHANGED <<reqSession, reqFetches>>
    /\ UNCHANGED <<verifyVars, timeVars, yocoVars>>

NextGet == \E r \in Requests : SessionSettled(r) \/ FetchSettled(r) \/ JsonSettled(r)

SpecGet == InitGet /\ [][NextGet]_vars

\* C10: the backend is fetched only for an ADMIN session; no session ends 401
\* and a non-admin session 403, both without a backend request; a request ends
\* with exactly one response, of status 200, 401, 403 or 500, and 200 only when
\* the backend answered ok with success set.
ClaimC10_AdminGate ==
    \A r \in Requests :
        /\ reqFetches[r] > 0 => reqSession[r] = "admin"
        /\ Len(reqResponses[r]) <= 1
        /\ reqPc[r] = "done" =>
             /\ Len(reqResponses[r]) = 1
             /\ reqResponses[r][1] \in {200, 401, 403, 500}
        /\ (reqPc[r] = "done" /\ reqSession[r] = "null") =>
             (reqResponses[r] = <<401>> /\ reqFetches[r] = 0)
        /\ (reqPc[r] = "done" /\ reqSession[r] \in {"noUser", "user"}) =>
             (reqResponses[r] = <<403>> /\ reqFetches[r] = 0)
        /\ reqResponses[r] = <<200>> => reqBackend[r] = "success"

WitnessC10 ==
    /\ reqPc[1] = "done" /\ reqSession[1] = "user" /\ reqResponses[1] = <<403>>
    /\ reqPc[2] = "done" /\ reqSession[2] = "admin" /\ reqResponses[2] = <<200>>
    /\ reqFetches[2] = 1

====
